---- MODULE Spec2Model ----
(***************************************************************************)
(* Model of EnglishWordsParser (src/app/english_words_parser.py): the      *)
(* crawl loop parse_all_links over to_parse_links / parsed_links, the URL  *)
(* classifier parse_url, the word counter collect_words_from_text and      *)
(* save_to_file; and of PartOfSpeechAnalyzer.process_file                  *)
(* (src/app/part_of_speech_analyzer.py), which reads the saved file back.  *)
(***************************************************************************)
EXTENDS Integers, Sequences, FiniteSets, TLC

VARIABLES to_parse_links, parsed_links, word_frequency, base_url,
          current_link, page_content, idx, pc, last_fetch, admitted, failed,
          succeeded, discovered, output_file, word_frequency_dict,
          min_frequency

\* the output file and the state of the PartOfSpeechAnalyzer that reads it
filevars == <<output_file, word_frequency_dict, min_frequency>>

vars == <<to_parse_links, parsed_links, word_frequency, base_url,
          current_link, page_content, idx, pc, last_fetch, admitted, failed,
          succeeded, discovered, output_file, word_frequency_dict,
          min_frequency>>

(* ------------------------------ bounds --------------------------------- *)
MaxSeeds == 2
MaxParsed == 12
MaxTokens == 3
MaxEntries == 3

(* ------------------------------- URLs ---------------------------------- *)
\* A URL string is kept as the triple urlparse() splits it into; the path is
\* a sequence of characters.
Url(s, n, p) == [scheme |-> s, netloc |-> n, path |-> p]

PathRoot == <<>>
PathAbout == <<"/", "a">>
PathImage == <<"/", "i", ".", "p">>
PathX == <<"/", "x">>

UrlHome == Url("https", "example.com", PathRoot)
UrlAbout == Url("https", "example.com", PathAbout)
UrlImage == Url("https", "example.com", PathImage)
UrlExternal == Url("https", "external.com", PathX)
UrlHttpAbout == Url("http", "example.com", PathAbout)

UrlPool == {UrlHome, UrlAbout, UrlImage, UrlExternal, UrlHttpAbout}

\* href="/about": a root-relative reference, no scheme and no authority.
HrefRelAbout == Url("", "", PathAbout)

HrefPool == UrlPool \cup {HrefRelAbout}

NoLink == Url("", "", <<"?">>)

SeqsUpTo(S, n) == UNION {[1..k -> S] : k \in 0..n}

InSeq(x, s) == \E i \in DOMAIN s : s[i] = x

NoDup(s) == \A i, j \in DOMAIN s : s[i] = s[j] => i = j

\* urlparse(url).scheme://urlparse(url).netloc
extract_base_url(url) == Url(url.scheme, url.netloc, <<>>)

\* urljoin(current_link, href)
urljoin(base, href) ==
    IF href.scheme # "" THEN href
    ELSE IF href.path = <<>> THEN base
    ELSE Url(base.scheme, base.netloc, href.path)

\* parsed_url.path and not '.' in parsed_url.path
PageLike_NonEmpty(url) == url.path # <<>> /\ ~(\E i \in DOMAIN url.path : url.path[i] = ".")

\* not parsed_url.path or not '.' in parsed_url.path
PageLike(url) == url.path = <<>> \/ ~(\E i \in DOMAIN url.path : url.path[i] = ".")

\* parsed_url.netloc == urlparse(self.base_url).netloc
SameDomain(url, base) == url.netloc = base.netloc

\* the condition of parse_url
Admit(url, frontier, visited, base) ==
    /\ PageLike(url)
    /\ ~InSeq(url, frontier)
    /\ ~InSeq(url, visited)
    /\ SameDomain(url, base)

\* to_parse_links[0] read without removing it
PopRest_Keep(s) == s

\* list.pop(0): the list that remains
PopRest(s) == Tail(s)

\* list.pop(0): the element returned
PopItem(s) == Head(s)

\* list.insert(0, url)
Enqueue_Front(s, url) == <<url>> \o s

\* list.append(url)
Enqueue(s, url) == Append(s, url)

(* ------------------------------ words ---------------------------------- *)
AsciiUpper == {"T", "C", "M"}
AsciiLower == {"t", "h", "e", "c", "a", "s", "o", "n", "m"}
NonAsciiLetters == {"E'", "e'"}

\* str.lower() on one character
LowerChar(c) ==
    CASE c = "T" -> "t"
      [] c = "C" -> "c"
      [] c = "M" -> "m"
      [] c = "E'" -> "e'"
      [] OTHER -> c

\* the key taken as word instead of word.lower()
Lower_Identity(w) == w

\* word.lower()
Lower(w) == [i \in DOMAIN w |-> LowerChar(w[i])]

\* word.isalpha(): non-empty and every character a letter
IsAlpha(w) == w # <<>> /\ \A i \in DOMAIN w : w[i] \in AsciiUpper \cup AsciiLower \cup NonAsciiLetters

\* the test word.isascii() left out
IsAscii_Always(w) == TRUE

\* word.isascii()
IsAscii(w) == \A i \in DOMAIN w : w[i] \notin NonAsciiLetters

\* word_frequency is a dict in insertion order: a sequence of entries.
Entry(w, c) == [word |-> w, count |-> c]

HasKey(wf, w) == \E i \in DOMAIN wf : wf[i].word = w

\* self.word_frequency[w] += 1 on a defaultdict(int)
Increment(wf, w) ==
    IF HasKey(wf, w)
    THEN [i \in DOMAIN wf |-> IF wf[i].word = w
                              THEN [word |-> w, count |-> wf[i].count + 1]
                              ELSE wf[i]]
    ELSE Append(wf, [word |-> w, count |-> 1])

RECURSIVE CollectWords(_, _)
\* the loop of collect_words_from_text over text.split()
CollectWords(wf, words) ==
    IF words = <<>> THEN wf
    ELSE CollectWords(IF IsAlpha(Head(words)) /\ IsAscii(Head(words))
                      THEN Increment(wf, Lower(Head(words)))
                      ELSE wf,
                      Tail(words))

TokThe == <<"T", "h", "e">>
TokLowerThe == <<"t", "h", "e">>
TokCat == <<"C", "a", "t">>
TokX1 == <<"c", "1">>
TokCafe == <<"c", "a", "e'">>
TokSat == <<"s", "a", "t">>
TokOn == <<"o", "n">>
TokMat == <<"M", "a", "t">>

\* "The Cat sat on the Mat".split()
TextScenario == <<TokThe, TokCat, TokSat, TokOn, TokLowerThe, TokMat>>

TokPool == {TokThe, TokLowerThe, TokCat, TokX1, TokCafe, TokOn}

\* A page body: the tokens text.split() yields and the href values of its
\* <a> elements.  The empty string has neither.
Body(t, a) == [tokens |-> t, anchors |-> a]

EmptyBody == Body(<<>>, <<>>)

BodyText == Body(<<TokThe, TokCat, TokLowerThe>>, <<>>)
BodyRelative == Body(<<TokX1, TokCafe>>, <<HrefRelAbout>>)
BodyScenario == Body(<<TokX1>>, <<UrlAbout, UrlExternal, UrlImage>>)
BodyHttp == Body(<<>>, <<UrlHttpAbout, UrlHome, UrlHome>>)

Bodies == {EmptyBody, BodyText, BodyRelative, BodyScenario, BodyHttp}

\* the test `if page_content:` left out
Truthy_Always(body) == TRUE

\* truthiness of the string page_content
Truthy(body) == body # EmptyBody

(* ------------------------------ state ---------------------------------- *)
SeedPool == {UrlHome, UrlAbout, UrlImage}

Seeds == SeqsUpTo(SeedPool, MaxSeeds) \ {<<>>}

\* __init__
Init ==
    /\ \E initial_links \in Seeds :
          /\ to_parse_links = initial_links
          /\ base_url = extract_base_url(initial_links[1])
    /\ parsed_links = <<>>
    /\ word_frequency = <<>>
    /\ current_link = NoLink
    /\ page_content = EmptyBody
    /\ idx = 0
    /\ pc = "loop"
    /\ last_fetch = "none"
    /\ admitted = FALSE
    /\ failed = {}
    /\ succeeded = {}
    /\ discovered = {}
    /\ output_file = <<>>
    /\ word_frequency_dict = <<>>
    /\ min_frequency = 0

\* while self.to_parse_links: pop(0); requests.get succeeds and returns body
FetchOk ==
    /\ pc = "loop"
    /\ to_parse_links # <<>>
    /\ Len(parsed_links) < MaxParsed
    /\ \E body \in Bodies :
          /\ page_content' = body
          /\ pc' = IF Truthy(body) THEN "collect" ELSE "loop"
    /\ current_link' = PopItem(to_parse_links)
    /\ to_parse_links' = PopRest(to_parse_links)
    /\ last_fetch' = "ok"
    /\ idx' = 0
    /\ admitted' = FALSE
    /\ succeeded' = succeeded \cup {PopItem(to_parse_links)}
    /\ UNCHANGED <<parsed_links, word_frequency, base_url, failed, discovered>>
    /\ UNCHANGED filevars

\* while self.to_parse_links: pop(0); requests.get raises, "" is returned
FetchError ==
    /\ pc = "loop"
    /\ to_parse_links # <<>>
    /\ current_link' = PopItem(to_parse_links)
    /\ to_parse_links' = PopRest(to_parse_links)
    /\ page_content' = EmptyBody
    /\ pc' = IF Truthy(EmptyBody) THEN "collect" ELSE "loop"
    /\ last_fetch' = "error"
    /\ failed' = failed \cup {PopItem(to_parse_links)}
    /\ idx' = 0
    /\ admitted' = FALSE
    /\ UNCHANGED <<parsed_links, word_frequency, base_url, succeeded,
                   discovered>>
    /\ UNCHANGED filevars

\* self.collect_words_from_text(page_content)
Collect ==
    /\ pc = "collect"
    /\ word_frequency' = CollectWords(word_frequency, page_content.tokens)
    /\ pc' = "links"
    /\ idx' = 1
    /\ UNCHANGED <<to_parse_links, parsed_links, base_url, current_link,
                   page_content, last_fetch, admitted, failed, succeeded,
                   discovered>>
    /\ UNCHANGED filevars

\* the URL the anchor loop hands to parse_url next
Candidate == urljoin(current_link, page_content.anchors[idx])

\* one turn of the loop in find_links_and_add_to_parse: urljoin, parse_url
ParseUrl ==
    /\ pc = "links"
    /\ idx <= Len(page_content.anchors)
    /\ IF Admit(Candidate, to_parse_links, parsed_links, base_url)
       THEN /\ to_parse_links' = Enqueue(to_parse_links, Candidate)
            /\ admitted' = TRUE
       ELSE /\ to_parse_links' = to_parse_links
            /\ admitted' = FALSE
    /\ idx' = idx + 1
    /\ discovered' = discovered \cup {Candidate}
    /\ UNCHANGED <<parsed_links, word_frequency, base_url, current_link,
                   page_content, pc, last_fetch, failed, succeeded>>
    /\ UNCHANGED filevars

\* self.parsed_links.append(self.current_link)
Mark ==
    /\ pc = "links"
    /\ idx > Len(page_content.anchors)
    /\ parsed_links' = Append(parsed_links, current_link)
    /\ pc' = "loop"
    /\ UNCHANGED <<to_parse_links, word_frequency, base_url, current_link,
                   page_content, idx, last_fetch, admitted, failed,
                   succeeded, discovered>>
    /\ UNCHANGED filevars

\* the while condition is false: parse_all_links returns
Finish ==
    /\ pc = "loop"
    /\ to_parse_links = <<>>
    /\ pc' = "done"
    /\ UNCHANGED <<to_parse_links, parsed_links, word_frequency, base_url,
                   current_link, page_content, idx, last_fetch, admitted, failed,
                   succeeded, discovered>>
    /\ UNCHANGED filevars

(* ------------------------- sort and save ------------------------------- *)
RECURSIVE InsertUnstable(_, _)
\* e is put before the entries of equal count
InsertUnstable(sorted, e) ==
    IF sorted = <<>> THEN <<e>>
    ELSE IF Head(sorted).count > e.count
         THEN <<Head(sorted)>> \o InsertUnstable(Tail(sorted), e)
         ELSE <<e>> \o sorted

RECURSIVE InsertDesc(_, _)
\* e is put after every entry whose count is at least its own: equal counts
\* keep their order, as sorted(..., reverse=True) keeps it
InsertDesc(sorted, e) ==
    IF sorted = <<>> THEN <<e>>
    ELSE IF Head(sorted).count >= e.count
         THEN <<Head(sorted)>> \o InsertDesc(Tail(sorted), e)
         ELSE <<e>> \o sorted

RECURSIVE SortUnstableInto(_, _)
SortUnstableInto(acc, rest) ==
    IF rest = <<>> THEN acc
    ELSE SortUnstableInto(InsertUnstable(acc, Head(rest)), Tail(rest))

RECURSIVE SortInto(_, _)
SortInto(acc, rest) ==
    IF rest = <<>> THEN acc
    ELSE SortInto(InsertDesc(acc, Head(rest)), Tail(rest))

\* a descending sort that does not keep the order of equal counts
sort_word_frequency_Unstable(wf) == SortUnstableInto(<<>>, wf)

\* dict(sorted(self.word_frequency.items(), key=lambda item: item[1], reverse=True))
sort_word_frequency(wf) == SortInto(<<>>, wf)

DigitChars == <<"0", "1", "2", "3", "4", "5", "6", "7", "8", "9">>

RECURSIVE Decimal(_)
\* str(n) of a non-negative integer, as the f-string formats frequency
Decimal(n) ==
    IF n < 10 THEN <<DigitChars[n + 1]>>
    ELSE Append(Decimal(n \div 10), DigitChars[(n % 10) + 1])

\* f"{word}:{frequency}\n"
FormatLine(e) == e.word \o <<":">> \o Decimal(e.count) \o <<"\n">>

\* save_to_file: sort_word_frequency, then one line per item
Save ==
    /\ pc = "done"
    /\ word_frequency' = sort_word_frequency(word_frequency)
    /\ output_file' = [i \in DOMAIN word_frequency' |-> FormatLine(word_frequency'[i])]
    /\ pc' = "saved"
    /\ UNCHANGED <<to_parse_links, parsed_links, base_url, current_link,
                   page_content, idx, last_fetch, admitted, failed, succeeded,
                   discovered, word_frequency_dict, min_frequency>>

Next == FetchOk \/ FetchError \/ Collect \/ ParseUrl \/ Mark \/ Finish \/ Save

Spec == Init /\ [][Next]_vars

FairSpec == Spec /\ WF_vars(Next)

(* --------------------------- process_file ------------------------------ *)
WordCannot == <<"c", "a", "n", "n", "o", "t">>

Whitespace == {" ", "\n"}

RECURSIVE StripLeft(_)
StripLeft(line) ==
    IF line # <<>> /\ Head(line) \in Whitespace THEN StripLeft(Tail(line)) ELSE line

RECURSIVE StripRight(_)
StripRight(line) ==
    IF line # <<>> /\ line[Len(line)] \in Whitespace
    THEN StripRight(SubSeq(line, 1, Len(line) - 1))
    ELSE line

\* line.strip()
Strip(line) == StripLeft(StripRight(line))

RECURSIVE SplitColonInto(_, _, _)
SplitColonInto(parts, cur, rest) ==
    IF rest = <<>> THEN Append(parts, cur)
    ELSE IF Head(rest) = ":"
         THEN SplitColonInto(Append(parts, cur), <<>>, Tail(rest))
         ELSE SplitColonInto(parts, Append(cur, Head(rest)), Tail(rest))

\* s.split(':')
SplitColon(line) == SplitColonInto(<<>>, <<>>, line)

DigitValue(c) == (CHOOSE k \in DOMAIN DigitChars : DigitChars[k] = c) - 1

RECURSIVE ParseIntFrom(_, _)
ParseIntFrom(acc, digits) ==
    IF digits = <<>> THEN acc
    ELSE ParseIntFrom(10 * acc + DigitValue(Head(digits)), Tail(digits))

\* int(frequency)
ParseInt(digits) == ParseIntFrom(0, digits)

\* nltk word_tokenize on one lower-case word: the tokenizer's contraction
\* rules split "cannot" into "can" and "not"; other words stay whole
word_tokenize(word) ==
    IF word = WordCannot THEN <<SubSeq(word, 1, 3), SubSeq(word, 4, 6)>> ELSE <<word>>

RECURSIVE JoinSpace(_)
\* ' '.join(words)
JoinSpace(words) ==
    IF words = <<>> THEN <<>>
    ELSE IF Len(words) = 1 THEN words[1]
    ELSE words[1] \o <<" ">> \o JoinSpace(Tail(words))

\* dict[key] = value
SetItem(dict, key, value) ==
    IF \E i \in DOMAIN dict : dict[i].word = key
    THEN [i \in DOMAIN dict |-> IF dict[i].word = key THEN Entry(key, value) ELSE dict[i]]
    ELSE Append(dict, Entry(key, value))

\* frequency >= self.min_frequency
AboveThreshold_OrEqual(frequency, threshold) == frequency >= threshold

\* frequency > self.min_frequency
AboveThreshold(frequency, threshold) == frequency > threshold

\* the body of the loop of process_file for one line
ReadLine(dict, line, threshold) ==
    LET parts == SplitColon(Strip(line))
        word == parts[1]
        frequency == ParseInt(parts[2])
    IN  IF AboveThreshold(frequency, threshold)
        THEN SetItem(dict, JoinSpace(word_tokenize(word)), frequency)
        ELSE dict

RECURSIVE ReadLines(_, _, _)
ReadLines(dict, lines, threshold) ==
    IF lines = <<>> THEN dict
    ELSE ReadLines(ReadLine(dict, Head(lines), threshold), Tail(lines), threshold)

\* PartOfSpeechAnalyzer.process_file on the file save_to_file wrote
ProcessFile ==
    /\ pc = "saved"
    /\ \A i \in DOMAIN output_file : Len(SplitColon(Strip(output_file[i]))) = 2
    /\ word_frequency_dict' = ReadLines(word_frequency_dict, output_file, min_frequency)
    /\ pc' = "read"
    /\ UNCHANGED <<to_parse_links, parsed_links, word_frequency, base_url,
                   current_link, page_content, idx, last_fetch, admitted, failed,
                   succeeded, discovered, output_file, min_frequency>>

(* ------------------- collect_words_from_text alone --------------------- *)
\* tables collect_words_from_text may start from
StartTables ==
    {<<>>, <<Entry(TokLowerThe, 1)>>, <<Entry(<<"c", "a", "t">>, 2), Entry(TokLowerThe, 1)>>}

WordTexts == SeqsUpTo(TokPool, MaxTokens) \cup {TextScenario}

\* a parser whose word_frequency is some table, about to count some text
WordInit ==
    /\ word_frequency \in StartTables
    /\ \E text \in WordTexts : page_content = Body(text, <<>>)
    /\ pc = "collect"
    /\ to_parse_links = <<>>
    /\ parsed_links = <<>>
    /\ base_url = extract_base_url(UrlHome)
    /\ current_link = UrlHome
    /\ idx = 0
    /\ last_fetch = "ok"
    /\ admitted = FALSE
    /\ failed = {}
    /\ succeeded = {UrlHome}
    /\ discovered = {}
    /\ output_file = <<>>
    /\ word_frequency_dict = <<>>
    /\ min_frequency = 0

WordNext == Collect

WordSpec == WordInit /\ [][WordNext]_vars

(* ------------------- save_to_file and process_file alone --------------- *)
\* keys and counts of the tables that are saved
WordPool == {TokLowerThe, <<"c", "a", "t">>, TokOn, WordCannot}

CountPool == {1, 2, 12}

MinFrequencies == {0, 1, 1000}

\* the tables of up to MaxEntries items with distinct keys
Tables ==
    {t \in SeqsUpTo([word : WordPool, count : CountPool], MaxEntries) :
        \A i, j \in DOMAIN t : t[i].word = t[j].word => i = j}

\* a parser whose crawl is over, holding some table, and the analyzer's
\* threshold
TableInit ==
    /\ word_frequency \in Tables
    /\ min_frequency \in MinFrequencies
    /\ pc = "done"
    /\ to_parse_links = <<>>
    /\ parsed_links = <<UrlHome>>
    /\ base_url = extract_base_url(UrlHome)
    /\ current_link = UrlHome
    /\ page_content = BodyText
    /\ idx = 1
    /\ last_fetch = "ok"
    /\ admitted = FALSE
    /\ failed = {}
    /\ succeeded = {UrlHome}
    /\ discovered = {}
    /\ output_file = <<>>
    /\ word_frequency_dict = <<>>

TableNext == Save \/ ProcessFile

TableSpec == TableInit /\ [][TableNext]_vars

\* the guard on MaxParsed never binds
MaxParsedNotReached == Len(parsed_links) < MaxParsed

(* ------------------------------ claims --------------------------------- *)
Last(s) == s[Len(s)]

\* a step of FetchOk or FetchError is about to be taken from this state
AtDequeue == pc = "loop" /\ to_parse_links # <<>>

\* a step of ParseUrl is about to be taken from this state
AtParseUrl == pc = "links" /\ idx <= Len(page_content.anchors)

\* C1: no URL of the Frontier (to_parse_links) is in the Visited Set
\* (parsed_links), in any state of parse_all_links.
C1_FrontierDisjointVisited ==
    \A i \in DOMAIN to_parse_links : ~InSeq(to_parse_links[i], parsed_links)

\* C2: parsed_links never holds the same URL twice: no URL is fetched and
\* processed more than once.
C2_NoRevisit == NoDup(parsed_links)

\* C3: every URL parse_url appends to the Frontier has the scheme and the
\* host of the first seed (kept in base_url).
C3_AdmittedSameSchemeAndHost ==
    [][(AtParseUrl /\ to_parse_links' # to_parse_links)
          => /\ Last(to_parse_links').scheme = base_url.scheme
             /\ Last(to_parse_links').netloc = base_url.netloc]_vars

\* C5: no URL occurs in the Frontier more than once, from construction on.
C5_FrontierNoDup == NoDup(to_parse_links)

\* C6: a failed fetch only removes the dequeued URL from the Frontier: the
\* Visited Set and the Frequency Table are unchanged, nothing is enqueued, and
\* the loop goes on to the next dequeue.
C6_FailureOnlyDequeues ==
    [][(AtDequeue /\ last_fetch' = "error")
          => /\ to_parse_links' = Tail(to_parse_links)
             /\ parsed_links' = parsed_links
             /\ word_frequency' = word_frequency
             /\ pc' = "loop"]_vars

\* a fetch has just failed in the middle of a crawl that has visited pages,
\* counted words and still has URLs queued
C6_Witness ==
    /\ last_fetch = "error"
    /\ pc = "loop"
    /\ to_parse_links # <<>>
    /\ parsed_links # <<>>
    /\ word_frequency # <<>>

\* C8: the Frontier is a strict FIFO queue: it changes only by losing its
\* oldest (first) URL, which is the one fetched, or by gaining a URL at its
\* end; so URLs are fetched in the order they were enqueued.
C8_StrictFifo ==
    [][to_parse_links' # to_parse_links
          => \/ /\ AtDequeue
                /\ to_parse_links' = Tail(to_parse_links)
                /\ current_link' = Head(to_parse_links)
             \/ /\ AtParseUrl
                /\ to_parse_links' = Append(to_parse_links, Candidate)]_vars

\* a discovered URL (never a seed) has been dequeued and fetched while URLs
\* enqueued after it are still waiting
C8_Witness ==
    /\ current_link = UrlHttpAbout
    /\ last_fetch = "ok"
    /\ to_parse_links # <<>>

\* condition (a) of the classifier: the path is empty or has no "."
SpecPageLike(url) == url.path = <<>> \/ \A i \in DOMAIN url.path : url.path[i] # "."

\* the classifier's decision as the specification words it, (d) being an
\* exact match of scheme and host
SpecAdmit(url) ==
    /\ SpecPageLike(url)
    /\ ~InSeq(url, to_parse_links)
    /\ ~InSeq(url, parsed_links)
    /\ url.scheme = base_url.scheme
    /\ url.netloc = base_url.netloc

\* C9: parse_url appends the candidate iff (a) page-like path, (b) not in the
\* Frontier, (c) not in the Visited Set, (d) scheme and host equal the base's;
\* otherwise nothing changes; the Visited Set and Frequency Table never do.
C9_AdmitIffFourConditions ==
    [][AtParseUrl
          => /\ to_parse_links' = IF SpecAdmit(Candidate)
                                  THEN Append(to_parse_links, Candidate)
                                  ELSE to_parse_links
             /\ parsed_links' = parsed_links
             /\ word_frequency' = word_frequency]_vars

\* C10: every successful fetch, whatever its body, is followed by Word
\* Extractor, then Link Discoverer, then the append to the Visited Set, before
\* the next dequeue.
C10_SuccessIsProcessed ==
    [][/\ (AtDequeue /\ last_fetch' = "ok") => pc' = "collect"
       /\ pc = "collect" => (pc' = "links" /\ parsed_links' = parsed_links)
       /\ (pc = "links" /\ pc' # "links")
             => (pc' = "loop" /\ parsed_links' = Append(parsed_links, current_link))]_vars

\* C4: with finitely many URLs to discover, parse_all_links reaches Done with
\* an empty Frontier, whatever the links and the fetch outcomes are.
C4_Terminates == <>(pc = "done" /\ to_parse_links = <<>>)

\* Done is reached by a crawl in which a fetch failed and a page was
\* enqueued again by its own link
C4_Witness == pc = "done" /\ failed # {} /\ ~NoDup(parsed_links)

\* the candidate's earlier fetch failed and no fetch of it ever succeeded
FailedNeverFetched(url) == url \in failed /\ url \notin succeeded

\* the dequeue that fetches url
FetchOf(url) == AtDequeue /\ Head(to_parse_links) = url /\ current_link' = url

\* C7 as stated: a failure never marks the URL visited, and a URL that has
\* failed and was never fetched is appended again whenever a fetched page
\* links to it while it is not in the Frontier.
C7_FailedAlwaysRequeued ==
    [][/\ (AtDequeue /\ last_fetch' = "error") => parsed_links' = parsed_links
       /\ (AtParseUrl /\ FailedNeverFetched(Candidate)
             /\ ~InSeq(Candidate, to_parse_links))
             => to_parse_links' = Append(to_parse_links, Candidate)]_vars

\* C7 (amended): a failure never marks the URL visited; a URL that has failed
\* and was never fetched, found again on a fetched page while it is not in
\* the Frontier, is appended again provided it is page-like and its host is
\* the base host; and a failed URL waiting in the Frontier is fetched again:
\* it leaves the Frontier, which it can only do by the dequeue that fetches it.
C7_FailedRequeuedIfAdmissible ==
    /\ [][/\ (AtDequeue /\ last_fetch' = "error") => parsed_links' = parsed_links
          /\ (AtParseUrl /\ FailedNeverFetched(Candidate)
                /\ ~InSeq(Candidate, to_parse_links)
                /\ SpecPageLike(Candidate)
                /\ Candidate.netloc = base_url.netloc)
                => to_parse_links' = Append(to_parse_links, Candidate)
          /\ \A url \in UrlPool :
                (InSeq(url, to_parse_links) /\ ~InSeq(url, to_parse_links'))
                   => FetchOf(url)]_vars
    /\ \A url \in UrlPool :
          (url \in failed /\ InSeq(url, to_parse_links)) ~> ~InSeq(url, to_parse_links)

\* parse_url has just appended a URL whose earlier fetch failed
C7_Witness ==
    /\ pc = "links"
    /\ idx > 1
    /\ admitted
    /\ FailedNeverFetched(Last(to_parse_links))
    /\ Last(to_parse_links) = urljoin(current_link, page_content.anchors[idx - 1])

\* the count stored for w, 0 when w is not a key
CountOf(wf, w) ==
    IF \E i \in DOMAIN wf : wf[i].word = w
    THEN (CHOOSE e \in {wf[i] : i \in DOMAIN wf} : e.word = w).count
    ELSE 0

Keys(wf) == {wf[i].word : i \in DOMAIN wf}

\* a whitespace-delimited token made only of ASCII letters
AsciiLetters(tok) == tok # <<>> /\ \A i \in DOMAIN tok : tok[i] \in AsciiUpper \cup AsciiLower

\* the occurrences in text of ASCII-letter tokens whose lower-cased form is w
Occurrences(text, w) ==
    Cardinality({i \in DOMAIN text : AsciiLetters(text[i]) /\ Lower(text[i]) = w})

\* C11: collect_words_from_text adds to each key exactly the number of
\* ASCII-letter tokens of the text whose lower-cased form is that key and
\* touches nothing else; "The Cat sat on the Mat" counted into an empty table
\* gives the:2, cat:1, sat:1, on:1, mat:1.
C11_CollectCountsAsciiWords ==
    [][pc = "collect"
          => /\ \A w \in Keys(word_frequency) \cup Keys(word_frequency')
                      \cup {Lower(page_content.tokens[i]) : i \in DOMAIN page_content.tokens} :
                   CountOf(word_frequency', w)
                      = CountOf(word_frequency, w) + Occurrences(page_content.tokens, w)
             /\ NoDup([i \in DOMAIN word_frequency' |-> word_frequency'[i].word])
             /\ (page_content.tokens = TextScenario /\ word_frequency = <<>>)
                   => word_frequency' = <<Entry(TokLowerThe, 2), Entry(<<"c", "a", "t">>, 1),
                                          Entry(TokSat, 1), Entry(TokOn, 1),
                                          Entry(<<"m", "a", "t">>, 1)>>]_vars

\* the scenario text has been counted into an empty table
C11_Witness ==
    /\ pc = "links"
    /\ page_content.tokens = TextScenario
    /\ Len(word_frequency) = 5
    /\ CountOf(word_frequency, TokLowerThe) = 2
    /\ CountOf(word_frequency, TokSat) = 1

\* C12: in every state of the crawl, every key of the Frequency Table is a
\* non-empty token of lower-case ASCII letters and every count is positive.
C12_KeysLowerAsciiCountsPositive ==
    \A i \in DOMAIN word_frequency :
       /\ word_frequency[i].word # <<>>
       /\ \A j \in DOMAIN word_frequency[i].word : word_frequency[i].word[j] \in AsciiLower
       /\ word_frequency[i].count \in Nat
       /\ word_frequency[i].count >= 1

\* a page with upper-case words and a later page with a digit token and a
\* non-ASCII word have both been counted
C12_Witness ==
    /\ pc = "links"
    /\ page_content = BodyRelative
    /\ Len(word_frequency) = 2
    /\ CountOf(word_frequency, TokLowerThe) >= 2

\* the position of the entry keyed w
PosOf(wf, w) == CHOOSE i \in DOMAIN wf : wf[i].word = w

\* C13: sort_word_frequency keeps the same entries, in non-increasing count
\* order, entries of equal count in the order they had; save_to_file writes
\* one word:count line per entry in exactly that order.
C13_SortStableDescending ==
    [][pc = "done"
          => /\ Len(word_frequency') = Len(word_frequency)
             /\ {word_frequency'[i] : i \in DOMAIN word_frequency'}
                   = {word_frequency[i] : i \in DOMAIN word_frequency}
             /\ \A i, j \in DOMAIN word_frequency' :
                   i < j => word_frequency'[i].count >= word_frequency'[j].count
             /\ \A i, j \in DOMAIN word_frequency :
                   (i < j /\ word_frequency[i].count = word_frequency[j].count)
                      => PosOf(word_frequency', word_frequency[i].word)
                            < PosOf(word_frequency', word_frequency[j].word)
             /\ Len(output_file') = Len(word_frequency')
             /\ \A i \in DOMAIN output_file' :
                   output_file'[i] = FormatLine(word_frequency'[i])]_vars

\* a table was saved whose largest count came last and whose two equal
\* counts kept their order: cat:1, the:1, on:12 written as on, cat, the
C13_Witness ==
    /\ pc = "saved"
    /\ word_frequency = <<Entry(TokOn, 12), Entry(<<"c", "a", "t">>, 1), Entry(TokLowerThe, 1)>>
    /\ output_file[1] = <<"o", "n", ":", "1", "2", "\n">>

StoredKey(w) == IF w = WordCannot THEN <<"c", "a", "n", " ", "n", "o", "t">> ELSE w

IsPrefix(s, t) == Len(s) <= Len(t) /\ \A i \in DOMAIN s : s[i] = t[i]

\* C15: the Visited Set only grows, and every URL in it was dequeued and
\* fetched successfully at an earlier step.
C15_VisitedGrowsFromSuccess ==
    /\ [][IsPrefix(parsed_links, parsed_links')]_vars
    /\ [](\A i \in DOMAIN parsed_links : parsed_links[i] \in succeeded)
    /\ [][\A url \in UrlPool :
             (url \notin succeeded /\ url \in succeeded')
                => (AtDequeue /\ Head(to_parse_links) = url /\ last_fetch' = "ok")]_vars

\* two pages are in the Visited Set after a fetch of another URL failed
C15_Witness ==
    /\ Len(parsed_links) >= 2
    /\ failed # {}
    /\ \A url \in failed : ~InSeq(url, parsed_links)

\* the URLs that have had a fetch attempt
Attempted == failed \cup succeeded

\* how many times url is queued
Queued(frontier, url) == Cardinality({i \in DOMAIN frontier : frontier[i] = url})

\* C16: every URL that enters the Frontier eventually leaves it, and a copy
\* leaves it only by the dequeue that attempts its fetch; so at Done (and
\* after) every link found on a fetched page that is page-like and on the
\* base host has had a fetch attempt.
C16_DiscoveredAreAttempted ==
    /\ \A url \in UrlPool : InSeq(url, to_parse_links) ~> ~InSeq(url, to_parse_links)
    /\ [][\A url \in UrlPool :
             Queued(to_parse_links', url) < Queued(to_parse_links, url)
                => /\ AtDequeue
                   /\ Head(to_parse_links) = url
                   /\ current_link' = url
                   /\ url \in failed' \cup succeeded']_vars
    /\ [](pc \in {"done", "saved"}
            => \A url \in discovered :
                  (SpecPageLike(url) /\ url.netloc = base_url.netloc) => url \in Attempted)

\* the crawl is done after finding, on fetched pages, an admissible link
\* that was not a seed, a link to another host and a link to a file
C16_Witness ==
    /\ pc = "done"
    /\ UrlHttpAbout \in discovered
    /\ UrlExternal \in discovered
    /\ UrlImage \in discovered
    /\ UrlHttpAbout \in Attempted
====
